---- MODULE Spec2Model ----
(***************************************************************************)
(* Model of toc.py: generate_table_of_contents(markdown_content).          *)
(*                                                                         *)
(* A Python str is modelled as a sequence of one-character strings, so     *)
(* that the regular expressions, str.count, str.lower, str.splitlines and  *)
(* str.join are computed character by character, as the interpreter does.  *)
(***************************************************************************)
EXTENDS Integers, Sequences, FiniteSets, TLC

VARIABLES
    notoc,             \* contents of README.md.notoc, as read at line 30
    markdown_content,  \* the parameter; reassigned to the result at line 25
    headings,          \* list of (group 1, group 2) tuples of re.findall
    toc,               \* the TOC string being built
    i,                 \* number of headings the for loop has processed
    level,             \* the local `level` of the last processed heading
    entries,           \* history: the entries appended to toc at line 21
    pc

vars == <<notoc, markdown_content, headings, toc, i, level, entries, pc>>

-----------------------------------------------------------------------------
(* Bounds of the input documents.                                          *)

MaxTokens == 4

-----------------------------------------------------------------------------
(* Characters and character classes.                                       *)

LF == "\n"
CR == "\r"

\* What \s matches in a str pattern (the members that can be written here).
Whitespace == {" ", "\t", "\n", "\r", "\f"}

\* The line boundaries of str.splitlines (the members that can be written
\* here); "\r\n" counts as one boundary.
LineBreaks == {"\n", "\r", "\f"}

UpperCase == <<"A","B","C","D","E","F","G","H","I","J","K","L","M",
               "N","O","P","Q","R","S","T","U","V","W","X","Y","Z">>
LowerCase == <<"a","b","c","d","e","f","g","h","i","j","k","l","m",
               "n","o","p","q","r","s","t","u","v","w","x","y","z">>
Digits == {"0","1","2","3","4","5","6","7","8","9"}

Range(s) == {s[k] : k \in 1..Len(s)}

\* What \w matches: letters, digits and the underscore.
WordChars == Range(UpperCase) \cup Range(LowerCase) \cup Digits \cup {"_"}

-----------------------------------------------------------------------------
(* String helpers.                                                         *)

\* The first position j >= from with j past the end of s or s[j] \notin S:
\* where a greedy run of characters of S that starts at `from` stops.
RunEnd(s, from, S) ==
    LET stops == {j \in from..(Len(s) + 1) : j = Len(s) + 1 \/ s[j] \notin S}
    IN  CHOOSE j \in stops : \A k \in stops : j <= k

\* The first position j >= from with j past the end of s or s[j] \in S.
FirstOf(s, from, S) ==
    LET stops == {j \in from..(Len(s) + 1) : j = Len(s) + 1 \/ s[j] \in S}
    IN  CHOOSE j \in stops : \A k \in stops : j <= k

\* s[from:] in 1-based positions.
Drop(s, from) == SubSeq(s, from, Len(s))

\* s[0:n]; a slice past the end is cut at the end.
Take(s, n) == SubSeq(s, 1, IF n < Len(s) THEN n ELSE Len(s))

RECURSIVE Repeat(_, _)
\* s * n
Repeat(s, n) == IF n <= 0 THEN <<>> ELSE s \o Repeat(s, n - 1)

RECURSIVE Flatten(_)
Flatten(ss) == IF ss = <<>> THEN <<>> ELSE Head(ss) \o Flatten(Tail(ss))

-----------------------------------------------------------------------------
(* re.findall with the pattern of line 5 under re.MULTILINE: at a line     *)
(* start, group 1 = a run of '#', a run of whitespace and group 2 = the    *)
(* rest up to the end of a line.                                           *)

\* ^ under re.MULTILINE: the start of the string or just after a newline.
AtLineStart(s, p) == p = 1 \/ s[p - 1] = LF

\* The three greedy runs of the pattern from position p.  Each run is
\* maximal; giving characters back never helps, because the character after
\* a maximal '#' run is not '#', and `.*` stops only where `$` matches (at
\* the end of the string or before a newline).
HashEnd(s, p)  == RunEnd(s, p, {"#"})
SpaceEnd(s, p) == RunEnd(s, HashEnd(s, p), Whitespace)
MatchEnd(s, p) == FirstOf(s, SpaceEnd(s, p), {LF})

Matches(s, p) ==
    /\ AtLineStart(s, p)
    /\ HashEnd(s, p) > p
    /\ SpaceEnd(s, p) > HashEnd(s, p)

\* The tuple findall returns for the match at p: (group 1, group 2).
Groups(s, p) ==
    << SubSeq(s, p, MatchEnd(s, p) - 1),
       SubSeq(s, SpaceEnd(s, p), MatchEnd(s, p) - 1) >>

RECURSIVE FindAllFrom(_, _)
\* Non-overlapping matches, left to right; the scan resumes where the last
\* match ended.
FindAllFrom(s, p) ==
    IF p > Len(s) THEN <<>>
    ELSE IF Matches(s, p)
         THEN <<Groups(s, p)>> \o FindAllFrom(s, MatchEnd(s, p))
         ELSE FindAllFrom(s, p + 1)

findall(s) == FindAllFrom(s, 1)

-----------------------------------------------------------------------------
(* The loop body.                                                          *)

TableOfContents ==
    <<"T","a","b","l","e"," ","o","f"," ","C","o","n","t","e","n","t","s">>

\* "## Table of Contents\n" (line 8)
TocHeader == <<"#","#"," ">> \o TableOfContents \o <<LF>>

\* heading[0].count('#')
count(s, c) == Cardinality({k \in 1..Len(s) : s[k] = c})

\* heading[1].lower()
LowerChar(c) ==
    IF \E k \in 1..Len(UpperCase) : UpperCase[k] = c
    THEN LowerCase[CHOOSE k \in 1..Len(UpperCase) : UpperCase[k] = c]
    ELSE c
lower(s) == [k \in 1..Len(s) |-> LowerChar(s[k])]

\* The class written without the underscore, [^a-zA-Z0-9\s-].
KeptWithoutUnderscore(c) ==
    c \in (WordChars \ {"_"}) \cup Whitespace \cup {"-"}

\* [^\w\s-] does not match c
Kept(c) == c \in WordChars \cup Whitespace \cup {"-"}

\* re.sub with count=1: only the first character of the class is deleted.
StripFirstPunctuation(s) ==
    LET j == RunEnd(s, 1, {c \in Range(s) : Kept(c)})
    IN  Take(s, j - 1) \o Drop(s, j + 1)

\* re.sub(r'[^\w\s-]', '', s)
StripPunctuation(s) == SelectSeq(s, Kept)

RECURSIVE HyphenateSpaces(_)
\* re.sub(r'\s+', '-', s)
HyphenateSpaces(s) ==
    IF s = <<>> THEN <<>>
    ELSE IF Head(s) \in Whitespace
         THEN <<"-">> \o HyphenateSpaces(Drop(s, RunEnd(s, 1, Whitespace)))
         ELSE <<Head(s)>> \o HyphenateSpaces(Tail(s))

\* lines 17-18
link_text(text) == HyphenateSpaces(StripPunctuation(lower(text)))

\* "  " * (level - 2): level-2 headings flush left.
indentationFromLevelTwo(lvl) == Repeat(<<" ", " ">>, lvl - 2)

\* "  " * (level - 1)
indentation(lvl) == Repeat(<<" ", " ">>, lvl - 1)

\* f"{indentation}- [{heading[1]}](#{link_text})\n"
Entry(lvl, text) ==
    indentation(lvl) \o <<"-", " ", "[">> \o text \o <<"]", "(", "#">>
        \o link_text(text) \o <<")", LF>>

\* level > 1 and heading[1] != "Table of Contents"
Qualifies(lvl, text) == lvl > 1 /\ text # TableOfContents

-----------------------------------------------------------------------------
(* str.splitlines and str.join                                             *)

RECURSIVE splitlines(_)
splitlines(s) ==
    IF s = <<>> THEN <<>>
    ELSE LET j == FirstOf(s, 1, LineBreaks)
         IN  IF j > Len(s) THEN <<s>>
             ELSE LET skip == IF s[j] = CR /\ j < Len(s) /\ s[j + 1] = LF
                              THEN 2 ELSE 1
                  IN  <<SubSeq(s, 1, j - 1)>> \o splitlines(Drop(s, j + skip))

RECURSIVE join(_)
\* "\n".join(lines)
join(lines) ==
    IF lines = <<>> THEN <<>>
    ELSE IF Len(lines) = 1 THEN lines[1]
    ELSE lines[1] \o <<LF>> \o join(Tail(lines))

\* toc + markdown_content: the block put before the first line.
SplicedAtTop(lines, toc_lines) == toc_lines \o lines

\* markdown_content[0:1] + toc + markdown_content[1:]
Spliced(lines, toc_lines) ==
    Take(lines, 1) \o toc_lines \o Drop(lines, 2)

-----------------------------------------------------------------------------
(* The input documents: every concatenation of at most MaxTokens tokens,    *)
(* and the documents the specification names.                              *)

Tokens ==
    { <<"#">>, <<"#", "#">>, <<" ">>, <<LF>>, <<CR>>, <<"A">>, <<",">>,
      <<"_">>, <<"-">>, TableOfContents }

TokenDocs ==
    { Flatten(ts) : ts \in UNION { [1..n -> Tokens] : n \in 0..MaxTokens } }

\* "# Title\n## A\n### B\n## Table of Contents\n"
ExampleDoc ==
    <<"#"," ","T","i","t","l","e",LF, "#","#"," ","A",LF,
      "#","#","#"," ","B",LF>> \o TocHeader

\* "## Hello, World!"
HelloDoc ==
    <<"#","#"," ","H","e","l","l","o",","," ","W","o","r","l","d","!">>

\* "# Guide\r\n#### a-b,  C_3!\n"
DeepDoc ==
    <<"#"," ","G","u","i","d","e",CR,LF,
      "#","#","#","#"," ","a","-","b",","," "," ","C","_","3","!",LF>>

NamedDocs == {ExampleDoc, HelloDoc, DeepDoc}

Docs == TokenDocs \cup NamedDocs

-----------------------------------------------------------------------------
(* The state machine.                                                      *)

Init ==
    /\ notoc \in Docs
    /\ markdown_content = notoc
    /\ headings = <<>>
    /\ toc = <<>>
    /\ i = 0
    /\ level = 0
    /\ entries = <<>>
    /\ pc = "findall"

\* lines 5-8
FindHeadings ==
    /\ pc = "findall"
    /\ headings' = findall(markdown_content)
    /\ toc' = TocHeader
    /\ pc' = "loop"
    /\ UNCHANGED <<notoc, markdown_content, i, level, entries>>

\* lines 9-13, the condition of line 13 false
SkipHeading ==
    /\ pc = "loop"
    /\ i < Len(headings)
    /\ LET heading == headings[i + 1]
           lvl == count(heading[1], "#")
       IN  /\ ~Qualifies(lvl, heading[2])
           /\ level' = lvl
    /\ i' = i + 1
    /\ UNCHANGED <<notoc, markdown_content, headings, toc, entries, pc>>

\* lines 9-21, the condition of line 13 true
AddEntry ==
    /\ pc = "loop"
    /\ i < Len(headings)
    /\ LET heading == headings[i + 1]
           lvl == count(heading[1], "#")
       IN  /\ Qualifies(lvl, heading[2])
           /\ level' = lvl
           /\ toc' = toc \o Entry(lvl, heading[2])
           /\ entries' = Append(entries,
                            [h |-> i + 1,
                             slug |-> link_text(heading[2]),
                             line |-> Entry(lvl, heading[2])])
    /\ i' = i + 1
    /\ UNCHANGED <<notoc, markdown_content, headings, pc>>

\* lines 23-26
Splice ==
    /\ pc = "loop"
    /\ i = Len(headings)
    /\ markdown_content' =
          join(Spliced(splitlines(markdown_content), splitlines(toc)))
    /\ pc' = "done"
    /\ UNCHANGED <<notoc, headings, toc, i, level, entries>>

Next == FindHeadings \/ SkipHeading \/ AddEntry \/ Splice

Spec == Init /\ [][Next]_vars

-----------------------------------------------------------------------------
(* Vocabulary of the properties.                                           *)

\* The length of the '#' run at the start of s.
LeadingHashes(s) == RunEnd(s, 1, {"#"}) - 1

\* The length of the run of spaces at the start of s.
LeadingSpaces(s) == RunEnd(s, 1, {" "}) - 1

RECURSIVE SplitOn(_, _)
\* The fields of s between occurrences of c: the inverse of joining with c.
SplitOn(s, c) ==
    LET j == FirstOf(s, 1, {c})
    IN  IF j > Len(s) THEN <<s>>
        ELSE <<SubSeq(s, 1, j - 1)>> \o SplitOn(Drop(s, j + 1), c)

\* s without its leading and trailing whitespace.
Trim(s) ==
    LET inner == {k \in 1..Len(s) : s[k] \notin Whitespace}
    IN  IF inner = {} THEN <<>>
        ELSE SubSeq(s, CHOOSE k \in inner : \A m \in inner : k <= m,
                       CHOOSE k \in inner : \A m \in inner : k >= m)

\* The heading (group 1, group 2) an entry was made from.
HeadingOf(e) == headings[e.h]

\* "## Table of Contents"
TocHeaderLine == Take(TocHeader, Len(TocHeader) - 1)

Letters == Range(UpperCase) \cup Range(LowerCase)

RECURSIVE DeriveSlug(_, _, _, _)
\* The slug derivation read off in one pass over the text: each character is
\* lowercased; a character outside `keep` that is not whitespace is dropped;
\* the first whitespace character of a run (runs are taken after the
\* dropping) becomes a hyphen and the rest of the run nothing.
DeriveSlug(text, k, inRun, keep) ==
    IF k > Len(text) THEN <<>>
    ELSE LET c == LowerChar(text[k])
         IN  IF c \in Whitespace
             THEN (IF inRun THEN <<>> ELSE <<"-">>)
                      \o DeriveSlug(text, k + 1, TRUE, keep)
             ELSE IF c \in keep
             THEN <<c>> \o DeriveSlug(text, k + 1, FALSE, keep)
             ELSE DeriveSlug(text, k + 1, inRun, keep)

\* Letters, digits and the hyphen are kept; punctuation and underscores go.
SlugDroppingUnderscores(text) ==
    DeriveSlug(text, 1, FALSE, Letters \cup Digits \cup {"-"})

\* Letters, digits, the underscore and the hyphen are kept.
SlugKeepingUnderscores(text) ==
    DeriveSlug(text, 1, FALSE, Letters \cup Digits \cup {"_", "-"})

-----------------------------------------------------------------------------
(* Properties.                                                             *)

\* C1: the level computed for a heading equals the number of leading '#'
\* characters of the heading line, whatever the heading text contains.
C1_LevelIsLeadingHashRun ==
    i >= 1 => level = LeadingHashes(headings[i][1])

\* C2: a heading line that starts with exactly one '#' never produces a TOC
\* entry.
C2_LevelOneNeverListed ==
    \A k \in 1..Len(entries) : LeadingHashes(HeadingOf(entries[k])[1]) # 1

\* C3 (as stated): for "# Title\n## A\n### B\n## Table of Contents\n" the
\* entries are "- [A](#a)" with no leading spaces and "  - [B](#b)" with two.
C3_ExampleEntriesAsStated ==
    (pc = "done" /\ notoc = ExampleDoc) =>
        splitlines(toc) =
            << TocHeaderLine,
               <<"-"," ","[","A","]","(","#","a",")">>,
               <<" "," ","-"," ","[","B","]","(","#","b",")">> >>

\* C3 (amended): for "# Title\n## A\n### B\n## Table of Contents\n" the
\* entries are exactly "  - [A](#a)" (two leading spaces) and "    - [B](#b)"
\* (four leading spaces), in that order; 'Title' and 'Table of Contents'
\* produce no entries.
C3_ExampleEntries ==
    (pc = "done" /\ notoc = ExampleDoc) =>
        /\ splitlines(toc) =
            << TocHeaderLine,
               <<" "," ","-"," ","[","A","]","(","#","a",")">>,
               <<" "," "," "," ","-"," ","[","B","]","(","#","b",")">> >>
        /\ [k \in 1..Len(entries) |-> entries[k].h] = <<2, 3>>

C3_Witness ==
    /\ pc = "done"
    /\ notoc = ExampleDoc
    /\ Len(headings) = 4
    /\ Len(entries) = 2

\* C4: every entry of a heading whose line starts with L '#' characters
\* begins with exactly 2*(L-1) spaces followed by "- [".
C4_IndentIsTwicePerLevel ==
    \A k \in 1..Len(entries) :
        LET L == LeadingHashes(HeadingOf(entries[k])[1])
            line == entries[k].line
        IN  /\ LeadingSpaces(line) = 2 * (L - 1)
            /\ SubSeq(line, 2 * (L - 1) + 1, 2 * (L - 1) + 3) = <<"-", " ", "[">>

\* C5: for a non-empty input the output has as many lines as the input plus
\* one plus the number of entries made, each entry being exactly one line
\* (the output's lines are the newline-separated fields of the result).
C5_LineCount ==
    (pc = "done" /\ notoc # <<>>) =>
        Len(SplitOn(markdown_content, LF))
            = Len(splitlines(notoc)) + 1 + Len(entries)

\* C6: for a non-empty input with lines l0, ..., ln the output's lines are
\* l0, then the TOC block (headed by "## Table of Contents", one contiguous
\* block holding every entry), then l1, ..., ln; deleting the block gives back
\* the input lines unaltered and in order.
C6_TocInsertedAfterFirstLine ==
    (pc = "done" /\ notoc # <<>>) =>
        LET out == SplitOn(markdown_content, LF)
            inp == splitlines(notoc)
            n   == Len(out) - Len(inp)
        IN  /\ n >= 1 + Len(entries)
            /\ out[1] = inp[1]
            /\ out[2] = TocHeaderLine
            /\ Flatten(SubSeq(out, 3, n + 1)) =
                 Flatten([k \in 1..Len(entries) |->
                            SelectSeq(entries[k].line,
                                      LAMBDA c : c \notin LineBreaks)])
            /\ Take(out, 1) \o Drop(out, n + 2) = inp

C6_Witness ==
    /\ pc = "done"
    /\ Len(splitlines(notoc)) >= 3
    /\ Len(entries) >= 1
    /\ splitlines(notoc)[1] # <<>>

\* C7 (as stated): the slug of every entry is the heading text lowercased,
\* with every character that is not a letter, a digit, whitespace or a hyphen
\* deleted (underscores included), then each whitespace run made one hyphen.
C7_SlugDropsUnderscores ==
    \A k \in 1..Len(entries) :
        entries[k].slug = SlugDroppingUnderscores(HeadingOf(entries[k])[2])

\* C7 (amended): the slug of every entry is the heading text lowercased, with
\* every character that is not a letter, a digit, an underscore, whitespace
\* or a hyphen deleted (punctuation is deleted, underscores are kept), then
\* each whitespace run made one hyphen; 'Hello, World!' gives 'hello-world'.
C7_SlugKeepsUnderscores ==
    /\ \A k \in 1..Len(entries) :
          entries[k].slug = SlugKeepingUnderscores(HeadingOf(entries[k])[2])
    /\ (notoc = HelloDoc /\ pc = "done") =>
          /\ Len(entries) = 1
          /\ entries[1].slug = <<"h","e","l","l","o","-","w","o","r","l","d">>

C7_Witness ==
    /\ pc = "done"
    /\ \E k \in 1..Len(entries) :
          LET text == HeadingOf(entries[k])[2]
          IN  /\ "_" \in Range(text)
              /\ "_" \in Range(entries[k].slug)
              /\ \E c \in Range(text) : ~Kept(c)
              /\ \E c \in Range(text) : c \in Whitespace
              /\ \E c \in Range(text) : c \in Range(UpperCase)

\* C8: slug derivation is idempotent: deriving the slug of an entry's slug
\* gives the slug back unchanged.
C8_SlugIdempotent ==
    \A k \in 1..Len(entries) : link_text(entries[k].slug) = entries[k].slug

C8_Witness ==
    /\ pc = "done"
    /\ \E k \in 1..Len(entries) :
          LET text == HeadingOf(entries[k])[2]
          IN  /\ entries[k].slug # <<>>
              /\ entries[k].slug # text
              /\ Cardinality({j \in 1..Len(text) : ~Kept(text[j])}) >= 2
              /\ \E c \in Range(text) : c \in Whitespace

\* C9: every extracted heading lies on a single input line: the '#' run, the
\* whitespace after it and the text hold no newline, so a line of '#' alone
\* yields no heading.
C9_HeadingOnOneLine ==
    \A k \in 1..Len(headings) : LF \notin Range(headings[k][1])

\* C10: no entry is made for a heading whose text, the trimmed remainder of
\* the heading line after the '#' run, is exactly "Table of Contents".
C10_TocHeadingNeverListed ==
    \A k \in 1..Len(entries) :
        LET line == HeadingOf(entries[k])[1]
        IN  Trim(Drop(line, LeadingHashes(line) + 1)) # TableOfContents

====
